---- MODULE Spec2Model ----
(***************************************************************************)
(* Model of my_custom_sklearn_transforms/sklearn_transformers.py:          *)
(* DropColumns and StandardScaler.                                         *)
(*                                                                         *)
(* Floating-point numbers are modelled as extended rationals (exact        *)
(* arithmetic with NaN and the two infinities, IEEE rules for the special  *)
(* values, no rounding); a square root is kept exact as c * sqrt(r) with r *)
(* squarefree.  The numpy / scipy / sklearn / pandas functions the source  *)
(* calls are modelled by what they compute (scikit-learn 0.23, the release *)
(* the class body is taken from) and are named after the call.             *)
(* Datasets are the ones that pass input validation: two-dimensional, at   *)
(* least one row, no infinity, the feature count Features.                 *)
(***************************************************************************)
EXTENDS Integers, Sequences, FiniteSets, TLC

VARIABLES inst, last, nrows, hist, df, columns, dres
vars == <<inst, last, nrows, hist, df, columns, dres>>

\* ------------------------------------------------------------------ bounds
\* Rows a scaler instance is fitted on between two resets, at most.
MaxSeen == 3

Features == {"f1", "f2"}

\* ------------------------------------------------- float64 as extended Q
\* <<n, d>> with d > 0 is the rational n/d in lowest terms; <<0, 0>> is NaN,
\* <<1, 0>> is +inf, <<-1, 0>> is -inf.
Abs(n) == IF n < 0 THEN -n ELSE n
Sgn(n) == IF n > 0 THEN 1 ELSE IF n < 0 THEN -1 ELSE 0

RECURSIVE GCD(_, _)
GCD(a, b) == IF b = 0 THEN a ELSE GCD(b, a % b)

Q(n, d) ==
    IF d = 0 THEN <<Sgn(n), 0>>
    ELSE LET g == GCD(Abs(n), Abs(d))
         IN  <<(Sgn(d) * n) \div g, Abs(d) \div g>>

NaN == <<0, 0>>
Zero == <<0, 1>>
One == <<1, 1>>
FromInt(n) == <<n, 1>>
IsNaN(x) == x = NaN
IsFinite(x) == x[2] # 0

QNeg(x) == <<-x[1], x[2]>>
QAdd(x, y) ==
    IF IsNaN(x) \/ IsNaN(y) THEN NaN
    ELSE IF IsFinite(x) /\ IsFinite(y) THEN Q(x[1] * y[2] + y[1] * x[2], x[2] * y[2])
    ELSE IF IsFinite(y) THEN x
    ELSE IF IsFinite(x) THEN y
    ELSE IF x = y THEN x ELSE NaN
QSub(x, y) == QAdd(x, QNeg(y))
QMul(x, y) ==
    IF IsNaN(x) \/ IsNaN(y) THEN NaN ELSE Q(x[1] * y[1], x[2] * y[2])
QInv(y) ==
    IF IsNaN(y) THEN NaN
    ELSE IF ~IsFinite(y) THEN Zero
    ELSE IF y[1] = 0 THEN <<1, 0>>
    ELSE Q(y[2], y[1])
QDiv(x, y) == QMul(x, QInv(y))
QSquare(x) == QMul(x, x)

\* ------------------------------------------------------- square roots
\* The largest s with s*s dividing m (m >= 1).
SquarePart(m) ==
    CHOOSE s \in 1..m : /\ m % (s * s) = 0
                        /\ \A t \in (s + 1)..m : m % (t * t) # 0

\* np.sqrt of a float: the value c * sqrt(r), r squarefree.
Sqrt(v) ==
    IF IsNaN(v) \/ (IsFinite(v) /\ v[1] < 0) THEN [c |-> NaN, r |-> 1]
    ELSE IF ~IsFinite(v) THEN [c |-> v, r |-> 1]
    ELSE IF v[1] = 0 THEN [c |-> Zero, r |-> 1]
    ELSE LET m == v[1] * v[2]
             s == SquarePart(m)
         IN  [c |-> Q(s, v[2]), r |-> m \div (s * s)]

\* A dataset cell: the value a + b * sqrt(r) (b = 0 and r = 1 for a rational).
Num(a, b, r) ==
    IF IsNaN(a) \/ IsNaN(b) THEN [a |-> NaN, b |-> Zero, r |-> 1]
    ELSE IF b = Zero THEN [a |-> a, b |-> Zero, r |-> 1]
    ELSE [a |-> a, b |-> b, r |-> r]
Cell(q) == Num(q, Zero, 1)
CellNaN == Cell(NaN)

\* x + m and x - m, m a float.
NumAdd(x, m) == Num(QAdd(x.a, m), x.b, x.r)
NumSub(x, m) == Num(QSub(x.a, m), x.b, x.r)
\* x * s and x / s, s a square root c * sqrt(r): closed while the cell's
\* radical is s's or the cell is rational.
NumMul(x, s) ==
    IF s.r = 1 THEN Num(QMul(x.a, s.c), QMul(x.b, s.c), x.r)
    ELSE CASE x.r = 1 \/ x.r = s.r ->
              Num(QMul(QMul(x.b, s.c), FromInt(s.r)), QMul(x.a, s.c), s.r)
NumDiv(x, s) ==
    IF s.r = 1 THEN Num(QDiv(x.a, s.c), QDiv(x.b, s.c), x.r)
    ELSE CASE x.r = 1 \/ x.r = s.r ->
              Num(QDiv(x.b, s.c), QDiv(x.a, QMul(s.c, FromInt(s.r))), s.r)

\* ------------------------------------------------------------- datasets
\* A dataset: dense ndarray or scipy sparse matrix (the same logical matrix:
\* a sparse matrix's implicit zeros are values), rows of cells.
Row(x1, x2) == [f \in Features |-> IF f = "f1" THEN x1 ELSE x2]
Dataset(sparse, rows) == [sparse |-> sparse, rows |-> rows]
NoData == Dataset(FALSE, <<>>)

Int2Cell(v) == Cell(FromInt(v))
\* Rows of the batches passed to fit / partial_fit: the first feature may be
\* missing.
FitRows == {Row(Int2Cell(0), Int2Cell(0)), Row(Int2Cell(1), Int2Cell(1)),
            Row(CellNaN, Int2Cell(1))}
BatchLens == {1, 2}
FitBatches ==
    {Dataset(sp, rows) : sp \in BOOLEAN,
                         rows \in UNION {[1..k -> FitRows] : k \in BatchLens}}
\* One-row datasets passed to transform / inverse_transform.
XRows == {Row(Int2Cell(1), Int2Cell(1)), Row(Int2Cell(2), Int2Cell(2)),
          Row(CellNaN, Int2Cell(0))}
XInputs == {Dataset(sp, <<row>>) : sp \in BOOLEAN, row \in XRows}
IsFiniteRows(rows) ==
    \A i \in 1..Len(rows) : \A f \in Features : ~IsNaN(rows[i][f].a)

\* The floats of column f (fit reads rational cells).
Col(rows, f) == [i \in 1..Len(rows) |-> rows[i][f].a]

RECURSIVE NanSumTo(_, _)
NanSumTo(col, k) ==
    IF k = 0 THEN Zero
    ELSE IF IsNaN(col[k]) THEN NanSumTo(col, k - 1)
    ELSE QAdd(NanSumTo(col, k - 1), col[k])
\* np.nansum(X, axis=0), one column.
NanSum(col) == NanSumTo(col, Len(col))
\* np.isnan(X).sum(axis=0) and its complement, one column.
CountNaN(col) == Cardinality({i \in 1..Len(col) : IsNaN(col[i])})
CountSeen(col) == Len(col) - CountNaN(col)

RECURSIVE NanSqDevTo(_, _, _)
NanSqDevTo(col, avg, k) ==
    IF k = 0 THEN Zero
    ELSE IF IsNaN(col[k]) THEN NanSqDevTo(col, avg, k - 1)
    ELSE QAdd(NanSqDevTo(col, avg, k - 1), QSquare(QSub(col[k], avg)))
\* np.nanmean / np.nanvar (ddof = 0), one column: NaN for a column of NaNs.
NanMean(col) == QDiv(NanSum(col), FromInt(CountSeen(col)))
NanVar(col) ==
    QDiv(NanSqDevTo(col, NanMean(col), Len(col)), FromInt(CountSeen(col)))

\* ------------------------------------------------ attributes of the scaler
\* An attribute is [tag, val]: tag "absent" when hasattr is false, "None",
\* "scalar" (the float .0 of the first pass), "int" or "array".
ZeroArr == [f \in Features |-> Zero]
NoCount == [f \in Features |-> 0]
ZeroScale == [f \in Features |-> [c |-> Zero, r |-> 1]]
Attr(tag, val) == [tag |-> tag, val |-> val]
hasattr(a) == a.tag # "absent"

\* StandardScaler.__init__
StandardScaler(copy, with_mean, with_std) ==
    [with_mean |-> with_mean, with_std |-> with_std, copy |-> copy,
     n_features_in_ |-> FALSE,
     n_samples_seen_ |-> Attr("absent", NoCount),
     mean_ |-> Attr("absent", ZeroArr),
     var_ |-> Attr("absent", ZeroArr),
     scale_ |-> Attr("absent", ZeroScale)]

\* A reset that forgets to delete n_samples_seen_.
_reset_keep_count(self) ==
    IF hasattr(self.scale_)
    THEN [self EXCEPT !.scale_ = Attr("absent", ZeroScale),
                      !.mean_ = Attr("absent", ZeroArr),
                      !.var_ = Attr("absent", ZeroArr)]
    ELSE self

\* StandardScaler._reset
_reset(self) ==
    IF hasattr(self.scale_)
    THEN [self EXCEPT !.scale_ = Attr("absent", ZeroScale),
                      !.n_samples_seen_ = Attr("absent", NoCount),
                      !.mean_ = Attr("absent", ZeroArr),
                      !.var_ = Attr("absent", ZeroArr)]
    ELSE self

\* self._validate_data(X, reset=...): BaseEstimator records the feature count
\* (n_features_in_) when reset is true; the datasets of the model are valid.
_validate_data(self, reset) ==
    IF reset THEN [self EXCEPT !.n_features_in_ = TRUE] ELSE self

\* check_is_fitted(self): some attribute with a trailing underscore is set.
check_is_fitted(self) ==
    \/ self.n_features_in_
    \/ hasattr(self.scale_) \/ hasattr(self.n_samples_seen_)
    \/ hasattr(self.mean_) \/ hasattr(self.var_)

\* sklearn.utils.extmath._incremental_mean_and_var, feature f; last_mean and
\* last_variance are attributes (.0 broadcasts, None stays None).
IncMean(col, last_mean, last_n) ==
    QDiv(QAdd(QMul(last_mean, FromInt(last_n)), NanSum(col)),
         FromInt(last_n + CountSeen(col)))
IncVar(col, last_mean, last_var, last_n) ==
    LET new_n == CountSeen(col)
        last_sum == QMul(last_mean, FromInt(last_n))
        new_sum == NanSum(col)
        new_unnormalized == QMul(NanVar(col), FromInt(new_n))
        last_unnormalized == QMul(last_var, FromInt(last_n))
        last_over_new == QDiv(FromInt(last_n), FromInt(new_n))
        updated_unnormalized ==
            IF last_n = 0 THEN new_unnormalized
            ELSE QAdd(QAdd(last_unnormalized, new_unnormalized),
                      QMul(QDiv(last_over_new, FromInt(last_n + new_n)),
                           QSquare(QSub(QDiv(last_sum, last_over_new), new_sum))))
    IN  QDiv(updated_unnormalized, FromInt(last_n + new_n))
_incremental_mean_and_var(rows, last_mean, last_var, last_n) ==
    [mean |-> Attr("array", [f \in Features |->
                  IncMean(Col(rows, f), last_mean.val[f], last_n.val[f])]),
     var |-> IF last_var.tag = "None" THEN last_var
             ELSE Attr("array", [f \in Features |->
                  IncVar(Col(rows, f), last_mean.val[f], last_var.val[f],
                         last_n.val[f])]),
     n |-> Attr("array", [f \in Features |->
                  last_n.val[f] + CountSeen(Col(rows, f))])]

\* sklearn.utils.sparsefuncs.mean_variance_axis(X, axis=0): NaNs ignored.
mean_variance_axis(rows) ==
    [mean |-> Attr("array", [f \in Features |-> NanMean(Col(rows, f))]),
     var |-> Attr("array", [f \in Features |-> NanVar(Col(rows, f))])]

\* sklearn.utils.sparsefuncs.incr_mean_variance_axis(X, axis=0, ...), feature
\* f on a later pass: the batch's mean and variance merged into the stored
\* ones, which are kept when the batch has no value for the feature.
IncrMeanSparse(col, last_mean, last_n) ==
    LET new_n == CountSeen(col)
    IN  IF new_n > 0
        THEN QDiv(QAdd(QMul(last_mean, FromInt(last_n)),
                       QMul(NanMean(col), FromInt(new_n))),
                  FromInt(last_n + new_n))
        ELSE last_mean
IncrVarSparse(col, last_mean, last_var, last_n) ==
    LET new_n == CountSeen(col)
        updated_n == FromInt(last_n + new_n)
        last_over_new_n == QDiv(FromInt(last_n), FromInt(new_n))
        last_sum == QMul(last_mean, FromInt(last_n))
        new_sum == QMul(NanMean(col), FromInt(new_n))
    IN  IF new_n > 0
        THEN QDiv(QAdd(QAdd(QMul(last_var, FromInt(last_n)),
                            QMul(NanVar(col), FromInt(new_n))),
                       QMul(QDiv(last_over_new_n, updated_n),
                            QSquare(QSub(QDiv(last_sum, last_over_new_n),
                                         new_sum)))),
                  updated_n)
        ELSE last_var
\* The batch's statistics alone on a first pass (no feature has a count).
incr_mean_variance_axis(rows, last_mean, last_var, last_n) ==
    LET new == mean_variance_axis(rows)
        new_n == [f \in Features |-> CountSeen(Col(rows, f))]
    IN  IF \A f \in Features : last_n.val[f] = 0
        THEN [mean |-> new.mean, var |-> new.var, n |-> Attr("array", new_n)]
        ELSE [mean |-> Attr("array", [f \in Features |->
                  IncrMeanSparse(Col(rows, f), last_mean.val[f], last_n.val[f])]),
              var |-> Attr("array", [f \in Features |->
                  IncrVarSparse(Col(rows, f), last_mean.val[f], last_var.val[f],
                                last_n.val[f])]),
              n |-> Attr("array", [f \in Features |-> last_n.val[f] + new_n[f]])]

\* sklearn.preprocessing._data._handle_zeros_in_scale: scale[scale == 0.0] = 1.0
_handle_zeros_in_scale(scale) ==
    [f \in Features |-> IF scale[f].c = Zero THEN [c |-> One, r |-> 1]
                        ELSE scale[f]]

\* np.ptp(n_samples_seen_) == 0: every feature has the same count.
PtpIsZero(n) == \A f, g \in Features : n.val[f] = n.val[g]

\* ------------------------------------------------------- StandardScaler
\* The result of a call: the instance afterwards and the exception raised.
Result(self, exc) == [self |-> self, exc |-> exc]

\* partial_fit, lines 176-182: an integer n_samples_seen_ becomes an array.
CountAsArray(self) ==
    IF hasattr(self.n_samples_seen_) /\ self.n_samples_seen_.tag = "int"
    THEN [self EXCEPT !.n_samples_seen_.tag = "array"]
    ELSE self

\* A sparse branch that, with scaling disabled, counts the first batch only.
SparsePath_count_once(self, rows) ==
    LET batch_n == [f \in Features |-> CountSeen(Col(rows, f))]
        s1 == IF ~hasattr(self.n_samples_seen_)
              THEN [self EXCEPT !.n_samples_seen_ = Attr("array", batch_n)]
              ELSE self
    IN  IF s1.with_std
        THEN IF ~hasattr(s1.scale_)
             THEN LET mv == mean_variance_axis(rows)
                  IN  [s1 EXCEPT !.mean_ = mv.mean, !.var_ = mv.var]
             ELSE LET mv == incr_mean_variance_axis(rows, s1.mean_, s1.var_,
                                                    s1.n_samples_seen_)
                  IN  [s1 EXCEPT !.mean_ = mv.mean, !.var_ = mv.var,
                                 !.n_samples_seen_ = mv.n]
        ELSE [s1 EXCEPT !.mean_ = Attr("None", ZeroArr),
                        !.var_ = Attr("None", ZeroArr)]

\* partial_fit, lines 190-215: the sparse branch (with_mean is false).
SparsePath(self, rows) ==
    LET batch_n == [f \in Features |-> CountSeen(Col(rows, f))]
        s1 == IF ~hasattr(self.n_samples_seen_)
              THEN [self EXCEPT !.n_samples_seen_ = Attr("array", batch_n)]
              ELSE self
    IN  IF s1.with_std
        THEN IF ~hasattr(s1.scale_)
             THEN LET mv == mean_variance_axis(rows)
                  IN  [s1 EXCEPT !.mean_ = mv.mean, !.var_ = mv.var]
             ELSE LET mv == incr_mean_variance_axis(rows, s1.mean_, s1.var_,
                                                    s1.n_samples_seen_)
                  IN  [s1 EXCEPT !.mean_ = mv.mean, !.var_ = mv.var,
                                 !.n_samples_seen_ = mv.n]
        ELSE LET s2 == [s1 EXCEPT !.mean_ = Attr("None", ZeroArr),
                                  !.var_ = Attr("None", ZeroArr)]
             IN  IF hasattr(s2.scale_)
                 THEN [s2 EXCEPT !.n_samples_seen_ = Attr("array",
                          [f \in Features |->
                              s2.n_samples_seen_.val[f] + batch_n[f]])]
                 ELSE s2

\* A dense branch that takes every pass for the first one.
DensePath_reinit(self, rows) ==
    LET s1 == IF ~hasattr(self.n_samples_seen_)
              THEN [self EXCEPT !.n_samples_seen_ = Attr("array", NoCount)]
              ELSE self
        s2 == [s1 EXCEPT !.mean_ = Attr("scalar", ZeroArr),
                         !.var_ = IF s1.with_std THEN Attr("scalar", ZeroArr)
                                  ELSE Attr("None", ZeroArr)]
    IN  IF ~s2.with_mean /\ ~s2.with_std
        THEN [s2 EXCEPT !.mean_ = Attr("None", ZeroArr),
                        !.var_ = Attr("None", ZeroArr),
                        !.n_samples_seen_ = Attr("array",
                            [f \in Features |-> s2.n_samples_seen_.val[f]
                                 + Len(rows) - CountNaN(Col(rows, f))])]
        ELSE LET mv == _incremental_mean_and_var(rows, s2.mean_, s2.var_,
                                                 s2.n_samples_seen_)
             IN  [s2 EXCEPT !.mean_ = mv.mean, !.var_ = mv.var,
                            !.n_samples_seen_ = mv.n]

\* partial_fit, lines 217-235: the dense branch.
DensePath(self, rows) ==
    LET s1 == IF ~hasattr(self.n_samples_seen_)
              THEN [self EXCEPT !.n_samples_seen_ = Attr("array", NoCount)]
              ELSE self
        s2 == IF ~hasattr(s1.scale_)
              THEN [s1 EXCEPT !.mean_ = Attr("scalar", ZeroArr),
                              !.var_ = IF s1.with_std
                                       THEN Attr("scalar", ZeroArr)
                                       ELSE Attr("None", ZeroArr)]
              ELSE s1
    IN  IF ~s2.with_mean /\ ~s2.with_std
        THEN [s2 EXCEPT !.mean_ = Attr("None", ZeroArr),
                        !.var_ = Attr("None", ZeroArr),
                        !.n_samples_seen_ = Attr("array",
                            [f \in Features |-> s2.n_samples_seen_.val[f]
                                 + Len(rows) - CountNaN(Col(rows, f))])]
        ELSE LET mv == _incremental_mean_and_var(rows, s2.mean_, s2.var_,
                                                 s2.n_samples_seen_)
             IN  [s2 EXCEPT !.mean_ = mv.mean, !.var_ = mv.var,
                            !.n_samples_seen_ = mv.n]

\* partial_fit, lines 237-241: equal counts are reduced to an integer.
ReduceCount(self) ==
    IF PtpIsZero(self.n_samples_seen_)
    THEN [self EXCEPT !.n_samples_seen_.tag = "int"]
    ELSE self

\* partial_fit, lines 243-246.
SetScale(self) ==
    IF self.with_std
    THEN [self EXCEPT !.scale_ = Attr("array", _handle_zeros_in_scale(
                          [f \in Features |-> Sqrt(self.var_.val[f])]))]
    ELSE [self EXCEPT !.scale_ = Attr("None", ZeroScale)]

\* StandardScaler.partial_fit
partial_fit(self, X) ==
    LET s1 == CountAsArray(_validate_data(self, TRUE))
    IN  IF X.sparse
        THEN IF s1.with_mean
             THEN Result(s1, "ValueError")
             ELSE Result(SetScale(ReduceCount(SparsePath(s1, X.rows))), "none")
        ELSE Result(SetScale(ReduceCount(DensePath(s1, X.rows))), "none")

\* StandardScaler.fit
fit(self, X) == partial_fit(_reset(self), X)

\* The result of transform / inverse_transform: the instance afterwards, the
\* exception, the returned dataset and the caller's dataset after the call
\* (copy=None: self.copy decides whether the caller's dataset is the one
\* scaled).
Output(self, exc, ret, arg) ==
    [self |-> self, exc |-> exc, ret |-> ret, arg |-> arg]
Returned(self, X, ret) == Output(self, "none", ret, IF self.copy THEN X ELSE ret)
Raised(self, X, exc) == Output(self, exc, NoData, X)
\* X op= v, the vector v broadcast over the rows of X.
Broadcast(X, op, v) ==
    LET Apply(x, y) == CASE op = "-=" -> NumSub(x, y)
                         [] op = "/=" -> NumDiv(x, y)
                         [] op = "*=" -> NumMul(x, y)
                         [] op = "+=" -> NumAdd(x, y)
    IN  Dataset(X.sparse, [i \in 1..Len(X.rows) |->
                              [f \in Features |-> Apply(X.rows[i][f], v[f])]])

\* A sparse branch without the centering check.
TransformSparse_unchecked(self, X) ==
    IF ~hasattr(self.scale_) THEN Raised(self, X, "AttributeError")
    ELSE IF self.scale_.tag # "None"
    THEN Returned(self, X, Broadcast(X, "/=", self.scale_.val))
    ELSE Returned(self, X, X)

\* transform, lines 267-273: the sparse branch.
TransformSparse(self, X) ==
    IF self.with_mean THEN Raised(self, X, "ValueError")
    ELSE IF ~hasattr(self.scale_) THEN Raised(self, X, "AttributeError")
    ELSE IF self.scale_.tag # "None"
    THEN Returned(self, X, Broadcast(X, "/=", self.scale_.val))
    ELSE Returned(self, X, X)

\* A dense branch that also turns an integer n_samples_seen_ into an array,
\* as partial_fit does.
TransformDense_normalising(self, X) ==
    LET X1 == IF self.with_mean THEN Broadcast(X, "-=", self.mean_.val) ELSE X
        X2 == IF self.with_std THEN Broadcast(X1, "/=", self.scale_.val) ELSE X1
    IN  IF self.with_mean /\ ~hasattr(self.mean_)
        THEN Raised(self, X, "AttributeError")
        ELSE IF self.with_std /\ ~hasattr(self.scale_)
        THEN Raised(self, X, "AttributeError")
        ELSE Returned(CountAsArray(self), X, X2)

\* transform, lines 274-279: the dense branch.
TransformDense(self, X) ==
    LET X1 == IF self.with_mean THEN Broadcast(X, "-=", self.mean_.val) ELSE X
        X2 == IF self.with_std THEN Broadcast(X1, "/=", self.scale_.val) ELSE X1
    IN  IF self.with_mean /\ ~hasattr(self.mean_)
        THEN Raised(self, X, "AttributeError")
        ELSE IF self.with_std /\ ~hasattr(self.scale_)
        THEN Raised(self, X, "AttributeError")
        ELSE Returned(self, X, X2)

\* StandardScaler.transform
transform(self, X) ==
    IF ~check_is_fitted(self) THEN Raised(self, X, "NotFittedError")
    ELSE LET s1 == _validate_data(self, FALSE)
         IN  IF X.sparse THEN TransformSparse(s1, X) ELSE TransformDense(s1, X)

\* inverse_transform, lines 297-308: the sparse branch.
InverseSparse(self, X) ==
    IF self.with_mean THEN Raised(self, X, "ValueError")
    ELSE IF ~hasattr(self.scale_) THEN Raised(self, X, "AttributeError")
    ELSE IF self.scale_.tag # "None"
    THEN Returned(self, X, Broadcast(X, "*=", self.scale_.val))
    ELSE Returned(self, X, X)

\* A dense branch that adds the mean before it multiplies by the scale.
InverseDense_center_first(self, X) ==
    LET X1 == IF self.with_mean THEN Broadcast(X, "+=", self.mean_.val) ELSE X
        X2 == IF self.with_std THEN Broadcast(X1, "*=", self.scale_.val) ELSE X1
    IN  IF self.with_std /\ ~hasattr(self.scale_)
        THEN Raised(self, X, "AttributeError")
        ELSE IF self.with_mean /\ ~hasattr(self.mean_)
        THEN Raised(self, X, "AttributeError")
        ELSE Returned(self, X, X2)

\* inverse_transform, lines 309-317: the dense branch.
InverseDense(self, X) ==
    LET X1 == IF self.with_std THEN Broadcast(X, "*=", self.scale_.val) ELSE X
        X2 == IF self.with_mean THEN Broadcast(X1, "+=", self.mean_.val) ELSE X1
    IN  IF self.with_std /\ ~hasattr(self.scale_)
        THEN Raised(self, X, "AttributeError")
        ELSE IF self.with_mean /\ ~hasattr(self.mean_)
        THEN Raised(self, X, "AttributeError")
        ELSE Returned(self, X, X2)

\* StandardScaler.inverse_transform
inverse_transform(self, X) ==
    IF ~check_is_fitted(self) THEN Raised(self, X, "NotFittedError")
    ELSE IF X.sparse THEN InverseSparse(self, X) ELSE InverseDense(self, X)

\* ------------------------------------------------------------ DropColumns
Labels == {"a", "b", "c"}
Frame(cols, rows) == [cols |-> cols, rows |-> rows]
NoFrame == Frame(<<>>, <<>>)
HasColumn(X, l) == \E i \in 1..Len(X.cols) : X.cols[i] = l
\* The entries of s at the positions of the columns not in labels.
RECURSIVE Keep(_, _, _)
Keep(s, cols, labels) ==
    IF s = <<>> THEN <<>>
    ELSE LET rest == Keep(Tail(s), Tail(cols), labels)
         IN  IF Head(cols) \in labels THEN rest ELSE <<Head(s)>> \o rest
\* DataFrame.drop(labels=..., axis='columns'): a new frame, KeyError when a
\* label is not a column (errors='raise' is the default).
FrameDrop(data, labels) ==
    IF \E l \in labels : ~HasColumn(data, l)
    THEN [exc |-> "KeyError", ret |-> NoFrame]
    ELSE [exc |-> "none",
          ret |-> Frame(Keep(data.cols, data.cols, labels),
                        [i \in 1..Len(data.rows) |->
                            Keep(data.rows[i], data.cols, labels)])]

\* A transform that drops the columns of the caller's frame itself.
DropColumns_transform_inplace(cols, X) ==
    LET r == FrameDrop(X, cols)
    IN  [exc |-> r.exc, ret |-> r.ret, arg |-> IF r.exc = "none" THEN r.ret ELSE X]

\* DropColumns.transform: the exception, the returned frame and the caller's
\* frame after the call (the drop works on X.copy()).
DropColumns_transform(cols, X) ==
    LET data == X
        r == FrameDrop(data, cols)
    IN  [exc |-> r.exc, ret |-> r.ret, arg |-> X]

\* ------------------------------------------------------------ the state
\* inst: the StandardScaler instance.  last: the last call on it (operation,
\* whether its dataset was sparse, the exception, whether the instance held
\* statistics when the call began).  nrows, hist: the number of rows fitted
\* since the statistics were last reset, and (SpecFit only) the rows.
\* df, columns, dres: a caller's frame, DropColumns.columns and the last
\* DropColumns call with the frame it was given (SpecDrop).
Call(op, sparse, exc, refit) ==
    [op |-> op, sparse |-> sparse, exc |-> exc, refit |-> refit]
NoCall == Call("none", FALSE, "none", FALSE)
DropCall(op, exc, ret, X) == [op |-> op, exc |-> exc, ret |-> ret, X |-> X]
NoDrop == DropCall("none", "none", NoFrame, NoFrame)
Frames ==
    {Frame(<<"a", "b", "c">>, << <<x, y, z>> >>) : x, y, z \in {0, 1}}
    \cup {Frame(<<"a", "c">>, << <<x, z>> >>) : x, z \in {0, 1}}

Init ==
    /\ inst \in {StandardScaler(c, m, s) : c, m, s \in BOOLEAN}
    /\ last = NoCall
    /\ nrows = 0
    /\ hist = <<>>
    /\ df = NoFrame
    /\ columns = {}
    /\ dres = NoDrop

\* fit(X) by a caller.
FitCall(X) ==
    LET r == fit(inst, X)
    IN  /\ inst' = r.self
        /\ last' = Call("fit", X.sparse, r.exc, hasattr(inst.scale_))
        /\ nrows' = IF r.exc = "none" THEN Len(X.rows) ELSE 0

\* partial_fit(X) by a caller.
PartialFitCall(X) ==
    /\ nrows + Len(X.rows) <= MaxSeen
    /\ LET r == partial_fit(inst, X)
       IN  /\ inst' = r.self
           /\ last' = Call("partial_fit", X.sparse, r.exc, hasattr(inst.scale_))
           /\ nrows' = IF r.exc = "none" THEN nrows + Len(X.rows) ELSE nrows

Fit ==
    \E X \in FitBatches : FitCall(X) /\ UNCHANGED <<hist, df, columns, dres>>

PartialFit ==
    \E X \in FitBatches :
        PartialFitCall(X) /\ UNCHANGED <<hist, df, columns, dres>>

Transform ==
    \E X \in XInputs :
        LET r == transform(inst, X)
        IN  /\ inst' = r.self
            /\ last' = Call("transform", X.sparse, r.exc, hasattr(inst.scale_))
            /\ UNCHANGED <<nrows, hist, df, columns, dres>>

InverseTransform ==
    \E X \in XInputs :
        LET r == inverse_transform(inst, X)
        IN  /\ inst' = r.self
            /\ last' = Call("inverse_transform", X.sparse, r.exc,
                            hasattr(inst.scale_))
            /\ UNCHANGED <<nrows, hist, df, columns, dres>>

Next == Fit \/ PartialFit \/ Transform \/ InverseTransform
Spec == Init /\ [][Next]_vars

\* The fitting calls alone, with the fitted rows kept.
FitTracked ==
    \E X \in FitBatches :
        /\ FitCall(X)
        /\ hist' = IF last'.exc = "none" THEN X.rows ELSE <<>>
        /\ UNCHANGED <<df, columns, dres>>

PartialFitTracked ==
    \E X \in FitBatches :
        /\ PartialFitCall(X)
        /\ hist' = IF last'.exc = "none" THEN hist \o X.rows ELSE hist
        /\ UNCHANGED <<df, columns, dres>>

NextFit == FitTracked \/ PartialFitTracked
SpecFit == Init /\ [][NextFit]_vars

\* DropColumns: a transformer with some columns, a caller with some frame.
InitDrop ==
    /\ inst = StandardScaler(TRUE, TRUE, TRUE)
    /\ last = NoCall
    /\ nrows = 0
    /\ hist = <<>>
    /\ df \in Frames
    /\ columns \in SUBSET Labels
    /\ dres = NoDrop

\* DropColumns.fit
DropFit ==
    /\ dres' = DropCall("fit", "none", NoFrame, df)
    /\ UNCHANGED <<inst, last, nrows, hist, df, columns>>

\* transform(df) by the caller.
DropTransform ==
    LET r == DropColumns_transform(columns, df)
    IN  /\ dres' = DropCall("transform", r.exc, r.ret, df)
        /\ df' = r.arg
        /\ UNCHANGED <<inst, last, nrows, hist, columns>>

\* transform applied to the frame the preceding transform returned.
DropTransformAgain ==
    /\ dres.op = "transform"
    /\ dres.exc = "none"
    /\ LET r == DropColumns_transform(columns, dres.ret)
       IN  /\ dres' = DropCall("transform_again", r.exc, r.ret, r.arg)
           /\ UNCHANGED <<inst, last, nrows, hist, df, columns>>

NextDrop == DropFit \/ DropTransform \/ DropTransformAgain
SpecDrop == InitDrop /\ [][NextDrop]_vars

\* ------------------------------------------------------------ properties
Ops == {"fit", "partial_fit", "transform", "inverse_transform"}
Fresh(self) == StandardScaler(self.copy, self.with_mean, self.with_std)
Flags(self) == <<self.copy, self.with_mean, self.with_std>>
Stats(self) == <<self.n_samples_seen_, self.mean_, self.var_, self.scale_>>
Fitted == hasattr(inst.scale_)
CountOf(self, f) ==
    IF hasattr(self.n_samples_seen_) THEN self.n_samples_seen_.val[f] ELSE 0
UnitScale == [c |-> One, r |-> 1]
XFinite == {X \in XInputs : IsFiniteRows(X.rows)}

\* C1.  Merge equivalence: an instance fitted incrementally on all-finite
\* batches holds the mean, the variance and the counts that a fresh instance
\* with the same flags gets from one fit on the concatenation of the batches.
C1_MergeEquivalence ==
    (Fitted /\ IsFiniteRows(hist)) =>
        \A sp \in BOOLEAN :
            LET r == fit(Fresh(inst), Dataset(sp, hist))
            IN  r.exc = "none" =>
                    /\ r.self.mean_ = inst.mean_
                    /\ r.self.var_ = inst.var_
                    /\ r.self.scale_ = inst.scale_
                    /\ r.self.n_samples_seen_.val = inst.n_samples_seen_.val
\* Two batches, three finite rows, a variance of 2/9 in the first feature.
C1_Witness ==
    /\ last.op = "partial_fit" /\ last.exc = "none" /\ last.refit
    /\ IsFiniteRows(hist) /\ Len(hist) = 3
    /\ inst.var_.tag = "array" /\ inst.var_.val["f1"] = <<2, 9>>

\* C2.  fit is history-independent: after a successful fit(X) the instance is
\* the one a single partial_fit(X) makes of a freshly constructed instance
\* with the same flags, whatever was fitted before.
C2_FitHistoryIndependent ==
    (last.op = "fit" /\ last.exc = "none") =>
        inst = partial_fit(Fresh(inst), Dataset(last.sparse, hist)).self
\* A successful fit on an instance that held statistics of earlier batches.
C2_Witness ==
    /\ last.op = "fit" /\ last.exc = "none" /\ last.refit
    /\ Len(hist) = 1 /\ CountOf(inst, "f2") = 1

\* C3.  Round trip.  No stored mean or scale the transform uses is NaN.
FiniteStats(self) ==
    \A f \in Features :
        /\ self.with_mean => ~IsNaN(self.mean_.val[f])
        /\ self.with_std => ~IsNaN(self.scale_.val[f].c)
RoundTrips(self, X) ==
    LET t == transform(self, X)
    IN  /\ (~X.sparse \/ ~self.with_mean) => t.exc = "none"
        /\ t.exc = "none" =>
               LET u == inverse_transform(self, t.ret)
               IN  u.exc = "none" /\ u.ret = X
\* C3 as stated: for every fitted instance and every all-finite dataset,
\* inverse_transform(transform(X)) = X.
C3_RoundTripEveryFitted ==
    Fitted => \A X \in XFinite : RoundTrips(inst, X)
\* C3 as amended: for every fitted instance whose stored mean and scale hold
\* no NaN and every all-finite dataset that transform accepts,
\* inverse_transform(transform(X)) = X.
C3_RoundTrip ==
    (Fitted /\ FiniteStats(inst)) => \A X \in XFinite : RoundTrips(inst, X)
\* inverse_transform has run on an instance that centers and scales by an
\* irrational scale, which a dataset does not survive unchanged.
C3_Witness ==
    /\ last.op = "inverse_transform" /\ last.exc = "none"
    /\ inst.with_mean /\ inst.with_std /\ Fitted /\ FiniteStats(inst)
    /\ inst.scale_.val["f1"].r = 2
    /\ \E X \in XFinite : transform(inst, X).ret # X

\* C4.  A partial_fit that raises on an instance holding statistics leaves
\* n_samples_seen_, mean_, var_ and scale_ as they were, values and
\* representation.
C4_FailAtomic ==
    [][(last'.op = "partial_fit" /\ last'.exc # "none" /\ Fitted)
          => Stats(inst') = Stats(inst)]_vars

\* C5 as stated: on a sparse dataset each of the four operations raises the
\* centering ValueError exactly when with_mean is true.
C5_SparseCenteringAlways ==
    (last.op \in Ops /\ last.sparse) =>
        (last.exc = "ValueError" <=> inst.with_mean)
\* C5 as amended: on a sparse dataset fit and partial_fit raise the centering
\* ValueError exactly when with_mean is true; transform and inverse_transform
\* raise it when with_mean is true and fit or partial_fit has been called on
\* the instance, raise NotFittedError when neither was ever called, and never
\* raise the centering ValueError when with_mean is false.
C5_SparseCentering ==
    (last.op \in Ops /\ last.sparse) =>
        /\ ~inst.with_mean => last.exc # "ValueError"
        /\ (inst.with_mean /\ last.op \in {"fit", "partial_fit"})
               => last.exc = "ValueError"
        /\ (inst.with_mean /\ last.op \in {"transform", "inverse_transform"})
               => last.exc = IF inst.n_features_in_ THEN "ValueError"
                             ELSE "NotFittedError"
\* transform of a sparse dataset raised on a centering instance that had been
\* fitted on dense data.
C5_Witness ==
    /\ last.op = "transform" /\ last.sparse /\ last.refit
    /\ inst.with_mean /\ last.exc = "ValueError"

\* C6.  Every successful partial_fit adds to each feature's count the number
\* of non-missing entries the batch has for that feature (so no count ever
\* decreases, and a count is the total seen).
C6_CountGrowth ==
    [][(last'.op = "partial_fit" /\ last'.exc = "none") =>
          \A f \in Features :
              CountOf(inst', f) = CountOf(inst, f)
                  + CountSeen(Col(SubSeq(hist', Len(hist) + 1, Len(hist')), f))]_vars
\* A later sparse batch with a missing entry, scaling and centering disabled:
\* the features' counts differ.
C6_Witness ==
    /\ last.op = "partial_fit" /\ last.exc = "none" /\ last.refit /\ last.sparse
    /\ ~inst.with_mean /\ ~inst.with_std
    /\ CountOf(inst, "f1") = 2 /\ CountOf(inst, "f2") = 3

\* C7.  After a successful fit or partial_fit, mean_ is None when with_mean is
\* false, and var_ and scale_ are None when with_std is false.
C7_NoneWhenDisabled ==
    Fitted =>
        /\ ~inst.with_mean => inst.mean_.tag = "None"
        /\ ~inst.with_std => (inst.var_.tag = "None" /\ inst.scale_.tag = "None")

\* C8.  With scaling enabled each scale is the square root of the stored
\* variance, 1 in place of 0; a feature whose seen values are all equal has
\* scale 1 and, with centering, transform maps that value to 0.
SeenValues(f) == {hist[i][f].a : i \in 1..Len(hist)} \ {NaN}
ConstantRow(v) == Dataset(FALSE, <<[f \in Features |-> Cell(v)]>>)
C8_ScaleOfConstant ==
    (Fitted /\ inst.with_std) =>
        \A f \in Features :
            /\ inst.scale_.val[f] = IF inst.var_.val[f] = Zero THEN UnitScale
                                    ELSE Sqrt(inst.var_.val[f])
            /\ Cardinality(SeenValues(f)) = 1 =>
                   /\ inst.scale_.val[f] = UnitScale
                   /\ inst.with_mean =>
                          \A v \in SeenValues(f) :
                              LET t == transform(inst, ConstantRow(v))
                              IN  t.exc = "none" /\ t.ret.rows[1][f] = Cell(Zero)

\* C9.  transform and inverse_transform leave the instance as it was, whether
\* they return or raise, and no call changes the flags.
C9_ReadOnly ==
    [][/\ last'.op \in {"transform", "inverse_transform"} => inst' = inst
       /\ Flags(inst') = Flags(inst)]_vars
\* transform returned on a fitted instance whose count is an integer.
C9_Witness ==
    /\ last.op = "transform" /\ last.exc = "none" /\ last.refit
    /\ inst.n_samples_seen_.tag = "int" /\ inst.with_mean /\ inst.with_std

\* C10 as stated: transform leaves the caller's frame unchanged, and applied
\* to its own output it returns that output.
C10_Idempotent ==
    /\ dres.op = "transform" => df = dres.X
    /\ dres.op = "transform_again" => (dres.exc = "none" /\ dres.ret = dres.X)
\* C10 as amended: transform leaves the caller's frame unchanged and returns
\* a frame without the columns exactly when the frame has them all; applied to
\* its own output it raises KeyError, unless no column is to be dropped, when
\* it returns that output.
C10_DropTransform ==
    /\ dres.op = "transform" =>
           /\ df = dres.X
           /\ dres.exc = "none" <=> \A l \in columns : HasColumn(df, l)
           /\ dres.exc = "none" => \A l \in columns : ~HasColumn(dres.ret, l)
    /\ dres.op = "transform_again" =>
           IF columns = {} THEN dres.exc = "none" /\ dres.ret = dres.X
           ELSE dres.exc = "KeyError"
\* transform applied to its own output raised: column b is no longer there.
C10_Witness ==
    /\ dres.op = "transform_again" /\ dres.exc = "KeyError"
    /\ columns = {"b"} /\ dres.X.cols = <<"a", "c">>
====
